---- MODULE Spec2Model ----
(***************************************************************************)
(* Model of analyse_insta.py: get_values_from_json (the extractor) and     *)
(* analyze_instagram_lists (comparison and report).                        *)
(*                                                                         *)
(* A string is a sequence of characters; a JSON value is a record with a   *)
(* type tag t and a payload v; a JSON object's payload is a TLA+ record    *)
(* whose DOMAIN is the object's key set.  Text written to the output file  *)
(* is kept as a sequence of lines (every write of the program ends with a  *)
(* newline, and no identifier of the model contains one).                  *)
(***************************************************************************)
EXTENDS Integers, Sequences, FiniteSets, TLC

VARIABLES
    pc,                    \* position of the run inside analyze_instagram_lists
    followers_file,        \* what is at followers_file_path
    following_file,        \* what is at following_file_path
    followers,             \* local followers of analyze_instagram_lists
    following,             \* local following
    mutuals,               \* local mutuals
    not_following_back,    \* local not_following_back
    you_dont_follow_back,  \* local you_dont_follow_back
    disk,                  \* what is at output_results_file: NoFile or FileOf(lines)
    written,               \* number of out_f.write calls that have returned
    console                \* the messages printed so far

vars == <<pc, followers_file, following_file, followers, following, mutuals,
          not_following_back, you_dont_follow_back, disk, written, console>>

----------------------------------------------------------------------------
(* Bounds *)

\* most hrefs of a document of the runs of Spec
MaxIds == 3
\* most records of a document of SpecExtract
MaxRec == 2

----------------------------------------------------------------------------
(* Characters and strings *)

SLASH == "/"
\* a lone surrogate: json.load accepts "\ud800", no UTF-8 encoding exists
SURROGATE == "U+D800"

\* code point of a character of an identifier (Python orders str by code point)
Code(c) ==
    CASE c = "/" -> 47
      [] c = "N" -> 78
      [] c = "a" -> 97
      [] c = "b" -> 98
      [] c = "e" -> 101
      [] c = "n" -> 110
      [] c = "o" -> 111
      [] c = SURROGATE -> 55296

\* s < t for two Python str
StrLess(s, t) ==
    \E k \in 1..(Len(t)) :
        /\ k <= Len(s) + 1
        /\ \A i \in 1..(k - 1) : s[i] = t[i]
        /\ \/ k = Len(s) + 1
           \/ Code(s[k]) < Code(t[k])

\* the mutant of rstrip: at most one trailing character is removed
rstrip_once(s, ch) ==
    IF s # <<>> /\ s[Len(s)] = ch THEN SubSeq(s, 1, Len(s) - 1) ELSE s

RECURSIVE rstrip(_, _)
\* str.rstrip(ch) for a one-character argument
rstrip(s, ch) ==
    IF s # <<>> /\ s[Len(s)] = ch
    THEN rstrip(SubSeq(s, 1, Len(s) - 1), ch)
    ELSE s

\* the mutant of sorted: descending order
RECURSIVE sorted_desc(_)
sorted_desc(S) ==
    IF S = {} THEN <<>>
    ELSE LET m == CHOOSE x \in S : \A y \in S \ {x} : StrLess(y, x)
         IN  <<m>> \o sorted_desc(S \ {m})

RECURSIVE sorted(_)
\* sorted(list(S)) for a set of str
sorted(S) ==
    IF S = {} THEN <<>>
    ELSE LET m == CHOOSE x \in S : \A y \in S \ {x} : StrLess(x, y)
         IN  <<m>> \o sorted(S \ {m})

\* text.encode('utf-8') succeeds
Encodable(s) == \A i \in 1..Len(s) : s[i] # SURROGATE

----------------------------------------------------------------------------
(* JSON values and files *)

JNum == [t |-> "num", v |-> <<>>]
JStr(s) == [t |-> "str", v |-> s]
JList(items) == [t |-> "list", v |-> items]
JDict(fields) == [t |-> "dict", v |-> fields]

IsDict(x) == x.t = "dict"
IsList(x) == x.t = "list"
HasKey(x, k) == k \in DOMAIN x.v

MISSING == [st |-> "missing", v |-> JNum]        \* no such path
UNREADABLE == [st |-> "unreadable", v |-> JNum]  \* the path exists, open raises OSError
INVALID == [st |-> "invalid", v |-> JNum]        \* json.load raises JSONDecodeError
JsonFile(x) == [st |-> "json", v |-> x]          \* json.load returns x

----------------------------------------------------------------------------
(* get_values_from_json *)

\* the result of a loop: the set built so far, the warnings printed, and
\* whether an exception left the loop
Loop(vals, msgs, raised) == [values |-> vals, msgs |-> msgs, raised |-> raised]

RECURSIVE SubItemLoop(_, _, _, _)
\* the inner for loop, from index j on (indices are those enumerate() gives)
SubItemLoop(subs, i, j, acc) ==
    IF j >= Len(subs) THEN acc
    ELSE LET sub_item == subs[j + 1] IN
         IF ~IsDict(sub_item)
         THEN SubItemLoop(subs, i, j + 1,
                  Loop(acc.values, Append(acc.msgs, <<"SubItemNotDict", i, j>>), FALSE))
         ELSE IF HasKey(sub_item, "href")
         THEN IF sub_item.v.href.t = "str"
              THEN SubItemLoop(subs, i, j + 1,
                       Loop(acc.values \cup {rstrip(sub_item.v.href.v, SLASH)},
                            acc.msgs, FALSE))
              \* .rstrip on a value that is not a str: AttributeError
              ELSE Loop(acc.values, acc.msgs, TRUE)
         ELSE SubItemLoop(subs, i, j + 1,
                  Loop(acc.values, Append(acc.msgs, <<"NoHref", i, j>>), FALSE))

RECURSIVE ItemLoop(_, _, _)
\* the outer for loop, from index i on
ItemLoop(items, i, acc) ==
    IF i >= Len(items) THEN acc
    ELSE LET item == items[i + 1] IN
         IF ~IsDict(item)
         THEN ItemLoop(items, i + 1,
                  Loop(acc.values, Append(acc.msgs, <<"ItemNotDict", i>>), FALSE))
         ELSE IF HasKey(item, "string_list_data") /\ IsList(item.v.string_list_data)
         THEN LET r == SubItemLoop(item.v.string_list_data.v, i, 0, acc) IN
              IF r.raised THEN r ELSE ItemLoop(items, i + 1, r)
         ELSE ItemLoop(items, i + 1,
                  Loop(acc.values, Append(acc.msgs, <<"NoStringListData", i>>), FALSE))

\* the mutant of ItemsToProcess: an object passes with any key that holds a list
ItemsToProcess_anykey(data) ==
    IF IsList(data) THEN [ok |-> TRUE, items |-> data.v]
    ELSE IF IsDict(data) /\ \E k \in DOMAIN data.v : IsList(data.v[k])
    THEN [ok |-> TRUE,
          items |-> data.v[CHOOSE k \in DOMAIN data.v : IsList(data.v[k])].v]
    ELSE [ok |-> FALSE, items |-> <<>>]

\* the choice of items_to_process
ItemsToProcess(data) ==
    IF IsList(data) THEN [ok |-> TRUE, items |-> data.v]
    ELSE IF /\ IsDict(data)
            /\ HasKey(data, "relationships_following")
            /\ IsList(data.v.relationships_following)
    THEN [ok |-> TRUE, items |-> data.v.relationships_following.v]
    ELSE [ok |-> FALSE, items |-> <<>>]

\* get_values_from_json(filepath): the set returned and the messages printed.
\* No exception leaves the function: except Exception takes every one.
get_values_from_json(file) ==
    IF file.st = "missing"
    THEN [values |-> {}, msgs |-> <<<<"FileNotFound">>>>]
    ELSE IF file.st = "unreadable"
    THEN [values |-> {}, msgs |-> <<<<"UnexpectedError">>>>]
    ELSE IF file.st = "invalid"
    THEN [values |-> {}, msgs |-> <<<<"InvalidJSON">>>>]
    ELSE LET top == ItemsToProcess(file.v) IN
         IF ~top.ok
         THEN [values |-> {}, msgs |-> <<<<"UnexpectedStructure">>>>]
         ELSE LET r == ItemLoop(top.items, 0, Loop({}, <<>>, FALSE)) IN
              [values |-> r.values,
               msgs |-> IF r.raised THEN Append(r.msgs, <<"UnexpectedError">>)
                        ELSE r.msgs]

----------------------------------------------------------------------------
(* analyze_instagram_lists: comparison *)

\* the mutant of BothEmpty: the second "not" is dropped
BothEmpty_never(f, g) == f = {} /\ g # {}

\* the test of "if not followers and not following"
BothEmpty(f, g) == f = {} /\ g = {}

\* the mutant of Mutuals: union for intersection
Mutuals_union(f, g) == f \cup g

\* followers.intersection(following)
Mutuals(f, g) == f \cap g

\* the mutant of NotFollowingBack: the direction is swapped
NotFollowingBack_swapped(f, g) == f \ g

\* following.difference(followers)
NotFollowingBack(f, g) == g \ f

\* followers.difference(following)
YouDontFollowBack(f, g) == f \ g

----------------------------------------------------------------------------
(* analyze_instagram_lists: the report *)

\* "--- Instagram List Analysis ---"
TITLE ==
    <<"-", "-", "-", " ", "I", "n", "s", "t", "a", "g", "r", "a", "m", " ",
      "L", "i", "s", "t", " ", "A", "n", "a", "l", "y", "s", "i", "s", " ",
      "-", "-", "-">>

\* "Users you follow who DO NOT follow you back:"
HEADING_NOT_FOLLOWING_BACK ==
    <<"U", "s", "e", "r", "s", " ", "y", "o", "u", " ", "f", "o", "l", "l",
      "o", "w", " ", "w", "h", "o", " ", "D", "O", " ", "N", "O", "T", " ",
      "f", "o", "l", "l", "o", "w", " ", "y", "o", "u", " ", "b", "a", "c",
      "k", ":">>

\* "Users who follow you that you DO NOT follow back:"
HEADING_YOU_DONT_FOLLOW_BACK ==
    <<"U", "s", "e", "r", "s", " ", "w", "h", "o", " ", "f", "o", "l", "l",
      "o", "w", " ", "y", "o", "u", " ", "t", "h", "a", "t", " ", "y", "o",
      "u", " ", "D", "O", " ", "N", "O", "T", " ", "f", "o", "l", "l", "o",
      "w", " ", "b", "a", "c", "k", ":">>

\* "Mutual followers (you follow each other):"
HEADING_MUTUALS ==
    <<"M", "u", "t", "u", "a", "l", " ", "f", "o", "l", "l", "o", "w", "e",
      "r", "s", " ", "(", "y", "o", "u", " ", "f", "o", "l", "l", "o", "w",
      " ", "e", "a", "c", "h", " ", "o", "t", "h", "e", "r", ")", ":">>

\* "- " of f"- {user}\n"
MARKER == <<"-", " ">>
\* "- None"
NONE_LINE == <<"-", " ", "N", "o", "n", "e">>
BLANK == <<>>

\* the write calls of one section, in order; a write is the lines it adds
SectionWrites(heading, S) ==
    <<<<heading>>>>
    \o (IF S # {}
        THEN LET users == sorted(S) IN
             [k \in 1..Len(users) |-> <<MARKER \o users[k]>>]
        ELSE <<<<NONE_LINE>>>>)
    \o <<<<BLANK>>>>

\* every write call of the with block, in order
ReportWrites(nfb, ydfb, mut) ==
    <<<<TITLE, BLANK>>>>
    \o SectionWrites(HEADING_NOT_FOLLOWING_BACK, nfb)
    \o SectionWrites(HEADING_YOU_DONT_FOLLOW_BACK, ydfb)
    \o SectionWrites(HEADING_MUTUALS, mut)

\* the write calls of this run
Writes == ReportWrites(not_following_back, you_dont_follow_back, mutuals)

\* the str of a write call encodes
WriteEncodable(w) == \A k \in 1..Len(w) : Encodable(w[k])

NoFile == [exists |-> FALSE, lines |-> <<>>]
FileOf(lines) == [exists |-> TRUE, lines |-> lines]
\* a report an earlier run left at output_results_file
OLD_CONTENT == FileOf(<<<<"o", "l", "d">>>>)

----------------------------------------------------------------------------
(* Inputs *)

SeqsUpTo(S, n) == UNION {[1..k -> S] : k \in 0..n}

\* the string "a"
A == <<"a">>
SubNotDict == JStr(A)
SubNoHref == JDict([value |-> JStr(A)])
SubHrefNotStr == JDict([href |-> JNum])
SubHref(h) == JDict([href |-> JStr(h)])

RecNotDict == JStr(A)
RecNoStringListData == JDict([title |-> JStr(A)])
RecStringListDataNotList == JDict([string_list_data |-> SubHref(A)])
Rec(subs) == JDict([string_list_data |-> JList(subs)])

ListDoc(recs) == JList(recs)
DictDoc(recs) == JDict([relationships_following |-> JList(recs)])

\* parsed values that are neither a list nor an object holding the list
BadShapes ==
    { JNum,
      JDict([relationships_followers |-> JList(<<Rec(<<SubHref(A)>>)>>)]),
      JDict([relationships_following |-> Rec(<<SubHref(A)>>)]) }

WholeFileFailures == {MISSING, UNREADABLE, INVALID} \cup {JsonFile(x) : x \in BadShapes}

\* href values of the documents of SpecExtract
ExtractHrefs == { <<"a">>, <<"a", "/">>, <<"b", "/", "/">> }

ExtractMalformedSubItems == {SubNotDict, SubNoHref, SubHrefNotStr}

ExtractSubItems ==
    ExtractMalformedSubItems \cup {SubHref(h) : h \in ExtractHrefs}

\* the sub-record lists of the records of SpecExtract: none, one of each
\* kind, and each malformed kind followed by a well-formed sub-record
ExtractSubLists ==
    {<<>>}
    \cup {<<x>> : x \in ExtractSubItems}
    \cup {<<x, SubHref(<<"a", "/">>)>> : x \in ExtractMalformedSubItems}

ExtractRecords ==
    {RecNotDict, RecNoStringListData, RecStringListDataNotList}
    \cup {Rec(subs) : subs \in ExtractSubLists}

ExtractFiles ==
    WholeFileFailures
    \cup {JsonFile(ListDoc(recs)) : recs \in SeqsUpTo(ExtractRecords, MaxRec)}
    \cup {JsonFile(DictDoc(recs)) : recs \in SeqsUpTo(ExtractRecords, MaxRec)}

\* href values of the documents of Spec
RunHrefs ==
    { <<"a">>, <<"a", "/", "b">>, <<"b", "/">>, <<"N", "o", "n", "e">>, <<SURROGATE>> }

\* one document for each set of at most MaxIds hrefs, one record for each href
RunRecords ==
    { [k \in 1..Len(hs) |-> Rec(<<SubHref(hs[k])>>)] :
        hs \in { s \in SeqsUpTo(RunHrefs, MaxIds) :
                   \A k \in 1..(Len(s) - 1) : StrLess(s[k], s[k + 1]) } }

RunFiles ==
    WholeFileFailures
    \cup {JsonFile(ListDoc(<<Rec(<<SubHrefNotStr>>), Rec(<<SubHref(A)>>)>>))}
    \cup {JsonFile(ListDoc(recs)) : recs \in RunRecords}
    \cup {JsonFile(DictDoc(recs)) : recs \in RunRecords}

----------------------------------------------------------------------------
(* The run *)

Locals0 ==
    /\ pc = "extract_followers"
    /\ followers = {}
    /\ following = {}
    /\ mutuals = {}
    /\ not_following_back = {}
    /\ you_dont_follow_back = {}
    /\ written = 0
    /\ console = <<>>

Init ==
    /\ Locals0
    /\ followers_file \in RunFiles
    /\ following_file \in RunFiles
    /\ disk \in {NoFile, OLD_CONTENT}

InitExtract ==
    /\ Locals0
    /\ followers_file \in ExtractFiles
    /\ following_file \in {MISSING, JsonFile(ListDoc(<<Rec(<<SubHref(A)>>)>>))}
    /\ disk = NoFile

\* lines 60-62
ExtractFollowers ==
    /\ pc = "extract_followers"
    /\ LET r == get_values_from_json(followers_file) IN
        /\ followers' = r.values
        /\ console' = console \o <<<<"Attempting", "followers">>>> \o r.msgs
                              \o <<<<"Extracted", Cardinality(r.values)>>>>
    /\ pc' = "extract_following"
    /\ UNCHANGED <<followers_file, following_file, following, mutuals,
                   not_following_back, you_dont_follow_back, disk, written>>

\* lines 64-66
ExtractFollowing ==
    /\ pc = "extract_following"
    /\ LET r == get_values_from_json(following_file) IN
        /\ following' = r.values
        /\ console' = console \o <<<<"Attempting", "following">>>> \o r.msgs
                              \o <<<<"Extracted", Cardinality(r.values)>>>>
    /\ pc' = "check"
    /\ UNCHANGED <<followers_file, following_file, followers, mutuals,
                   not_following_back, you_dont_follow_back, disk, written>>

\* lines 68-70
NoDataExit ==
    /\ pc = "check"
    /\ BothEmpty(followers, following)
    /\ console' = Append(console, <<"NoData">>)
    /\ pc' = "done"
    /\ UNCHANGED <<followers_file, following_file, followers, following, mutuals,
                   not_following_back, you_dont_follow_back, disk, written>>

\* lines 68, 72-81
Compare ==
    /\ pc = "check"
    /\ ~BothEmpty(followers, following)
    /\ mutuals' = Mutuals(followers, following)
    /\ not_following_back' = NotFollowingBack(followers, following)
    /\ you_dont_follow_back' = YouDontFollowBack(followers, following)
    /\ pc' = "open"
    /\ UNCHANGED <<followers_file, following_file, followers, following,
                   disk, written, console>>

\* line 84, open(output_file, 'w') returns: the file is created or truncated
OpenOutput ==
    /\ pc = "open"
    /\ disk' = FileOf(<<>>)
    /\ pc' = "write"
    /\ UNCHANGED <<followers_file, following_file, followers, following, mutuals,
                   not_following_back, you_dont_follow_back, written, console>>

\* line 84, open raises OSError (IOError is OSError); lines 113-114
OpenFail ==
    /\ pc = "open"
    /\ console' = Append(console, <<"WriteError">>)
    /\ pc' = "done"
    /\ UNCHANGED <<followers_file, following_file, followers, following, mutuals,
                   not_following_back, you_dont_follow_back, disk, written>>

\* one out_f.write of lines 85-109 returns
WriteOk ==
    /\ pc = "write"
    /\ written < Len(Writes)
    /\ WriteEncodable(Writes[written + 1])
    /\ disk' = FileOf(disk.lines \o Writes[written + 1])
    /\ written' = written + 1
    /\ UNCHANGED <<pc, followers_file, following_file, followers, following, mutuals,
                   not_following_back, you_dont_follow_back, console>>

\* the mutant of WriteIOError: the report is started again
WriteIOError_retry ==
    /\ pc = "write"
    /\ written < Len(Writes)
    /\ WriteEncodable(Writes[written + 1])
    /\ console' = Append(console, <<"WriteError">>)
    /\ pc' = "open"
    /\ UNCHANGED <<followers_file, following_file, followers, following, mutuals,
                   not_following_back, you_dont_follow_back, disk, written>>

\* one out_f.write raises OSError (the device is full, the medium fails);
\* lines 113-114.  What was written stays in the file.
WriteIOError ==
    /\ pc = "write"
    /\ written < Len(Writes)
    /\ WriteEncodable(Writes[written + 1])
    /\ console' = Append(console, <<"WriteError">>)
    /\ pc' = "done"
    /\ UNCHANGED <<followers_file, following_file, followers, following, mutuals,
                   not_following_back, you_dont_follow_back, disk, written>>

\* one out_f.write raises UnicodeEncodeError, a ValueError: "except IOError"
\* does not take it, and it leaves analyze_instagram_lists and the script
WriteEncodeError ==
    /\ pc = "write"
    /\ written < Len(Writes)
    /\ ~WriteEncodable(Writes[written + 1])
    /\ pc' = "crashed"
    /\ UNCHANGED <<followers_file, following_file, followers, following, mutuals,
                   not_following_back, you_dont_follow_back, disk, written, console>>

\* the with block ends, line 111
CloseOutput ==
    /\ pc = "write"
    /\ written = Len(Writes)
    /\ console' = Append(console, <<"Complete">>)
    /\ pc' = "done"
    /\ UNCHANGED <<followers_file, following_file, followers, following, mutuals,
                   not_following_back, you_dont_follow_back, disk, written>>

Next ==
    \/ ExtractFollowers
    \/ ExtractFollowing
    \/ NoDataExit
    \/ Compare
    \/ OpenOutput
    \/ OpenFail
    \/ WriteOk
    \/ WriteIOError
    \/ WriteEncodeError
    \/ CloseOutput

Spec == Init /\ [][Next]_vars

\* get_values_from_json alone, on the documents of ExtractFiles
NextExtract ==
    \/ ExtractFollowers
    \/ ExtractFollowing

SpecExtract == InitExtract /\ [][NextExtract]_vars

----------------------------------------------------------------------------
(* Reading the state for the properties *)

LastMessage == IF console = <<>> THEN "" ELSE console[Len(console)][1]

\* the run ended after the whole report was written
Complete == pc = "done" /\ LastMessage = "Complete"

\* the run ended in a failure of open or write
WriteFailed == pc = "crashed" \/ (pc = "done" /\ LastMessage = "WriteError")

\* the comparison has been made
Compared == pc \in {"open", "write", "crashed"} \/ Complete \/ WriteFailed

\* the lines of the file under the heading, up to the next blank line
SectionBody(heading) ==
    LET L == disk.lines
        p == CHOOSE k \in 1..Len(L) : L[k] = heading
        q == CHOOSE k \in (p + 1)..Len(L) :
                 L[k] = BLANK /\ \A m \in (p + 1)..(k - 1) : L[m] # BLANK
    IN  SubSeq(L, p + 1, q - 1)

HasSection(heading) ==
    \E p \in 1..Len(disk.lines) :
        /\ disk.lines[p] = heading
        /\ \E q \in (p + 1)..Len(disk.lines) : disk.lines[q] = BLANK

StartsWithMarker(line) == Len(line) >= 2 /\ SubSeq(line, 1, 2) = MARKER
AfterMarker(line) == SubSeq(line, 3, Len(line))

\* the identifiers the lines of a section name
Listed(body) == {AfterMarker(body[k]) : k \in 1..Len(body)}

\* the section under the heading is the listing of S
Lists(heading, S) ==
    /\ HasSection(heading)
    /\ LET body == SectionBody(heading) IN
        IF S = {} THEN body = <<NONE_LINE>>
        ELSE /\ \A k \in 1..Len(body) : StartsWithMarker(body[k])
             /\ Listed(body) = S

EndsWithSlash(s) == s # <<>> /\ s[Len(s)] = "/"

\* y is x followed by one or more slashes
SlashVariant(x, y) ==
    /\ Len(x) < Len(y)
    /\ SubSeq(y, 1, Len(x)) = x
    /\ \A k \in (Len(x) + 1)..Len(y) : y[k] = "/"

\* h without its trailing slashes
Core(h) ==
    CHOOSE x \in {SubSeq(h, 1, n) : n \in 0..Len(h)} :
        ~EndsWithSlash(x) /\ (x = h \/ SlashVariant(x, h))

\* the records of a file that get_values_from_json is to walk
RecordsOf(file) ==
    IF file.st = "json" THEN ItemsToProcess(file.v).items ELSE <<>>

WellFormedRecord(item) ==
    IsDict(item) /\ HasKey(item, "string_list_data") /\ IsList(item.v.string_list_data)

WellFormedSubItem(sub_item) ==
    IsDict(sub_item) /\ HasKey(sub_item, "href") /\ sub_item.v.href.t = "str"

\* the href strings of the well-formed sub-records of the well-formed records
StringHrefs(file) ==
    LET recs == RecordsOf(file) IN
    UNION { IF WellFormedRecord(recs[i])
            THEN LET subs == recs[i].v.string_list_data.v IN
                 { subs[j].v.href.v :
                     j \in {k \in 1..Len(subs) : WellFormedSubItem(subs[k])} }
            ELSE {} : i \in 1..Len(recs) }

\* some record or sub-record of the file is malformed
HasMalformed(file) ==
    LET recs == RecordsOf(file) IN
    \E i \in 1..Len(recs) :
        \/ ~WellFormedRecord(recs[i])
        \/ \E j \in 1..Len(recs[i].v.string_list_data.v) :
               ~WellFormedSubItem(recs[i].v.string_list_data.v[j])

----------------------------------------------------------------------------
(* Properties *)

\* C1: once the comparison is made (the two sets are not both empty),
\* mutuals is followers /\ following, not_following_back is following minus
\* followers and you_dont_follow_back is followers minus following; and a
\* complete report lists following minus followers under "Users you follow
\* who DO NOT follow you back", followers minus following under "Users who
\* follow you that you DO NOT follow back" and the intersection under
\* "Mutual followers".
C1_SetsAndHeadings ==
    Compared =>
        /\ mutuals = followers \cap following
        /\ not_following_back = following \ followers
        /\ you_dont_follow_back = followers \ following
        /\ Complete =>
            /\ Lists(HEADING_NOT_FOLLOWING_BACK, following \ followers)
            /\ Lists(HEADING_YOU_DONT_FOLLOW_BACK, followers \ following)
            /\ Lists(HEADING_MUTUALS, followers \cap following)

\* a complete report of a run where each of the three sets has an entry
C1_Witness ==
    /\ Complete
    /\ following \ followers # {}
    /\ followers \ following # {}
    /\ followers \cap following # {}

\* C2: the three derived sets are pairwise disjoint and their union is
\* followers \cup following: every identifier of either input is in exactly
\* one of them.
C2_Partition ==
    Compared =>
        /\ mutuals \cap not_following_back = {}
        /\ mutuals \cap you_dont_follow_back = {}
        /\ not_following_back \cap you_dont_follow_back = {}
        /\ mutuals \cup not_following_back \cup you_dont_follow_back
               = followers \cup following
        /\ \A x \in followers \cup following :
               Cardinality({S \in {<<1, mutuals>>, <<2, not_following_back>>,
                                   <<3, you_dont_follow_back>>} : x \in S[2]}) = 1

\* the comparison was made and none of the three sets is empty
C2_Witness ==
    /\ Compared
    /\ mutuals # {}
    /\ not_following_back # {}
    /\ you_dont_follow_back # {}

\* C3: with both sets empty the run ends at the check, the destination is
\* left as it was; the output is opened or changed only when one of the two
\* sets is not empty.
C3_NoOutputWhenBothEmpty ==
    [][ /\ (pc = "check" /\ followers = {} /\ following = {})
             => (pc' = "done" /\ disk' = disk /\ written' = written)
        /\ (pc' \in {"open", "write"} \/ disk' # disk)
             => (followers # {} \/ following # {}) ]_vars

\* a run that ended at the check, an earlier report still in place
C3_Witness ==
    /\ pc = "done"
    /\ LastMessage = "NoData"
    /\ followers = {} /\ following = {}
    /\ disk = OLD_CONTENT

\* C4: no identifier of a returned set ends with a slash, every one is an
\* href of the document without its trailing slashes, and no two of them
\* differ only in trailing slashes.
C4_NoTrailingSlash ==
    /\ pc # "extract_followers" =>
        /\ \A x \in followers : ~EndsWithSlash(x)
        /\ \A x, y \in followers : ~SlashVariant(x, y)
        /\ followers \subseteq {Core(h) : h \in StringHrefs(followers_file)}
    /\ pc \notin {"extract_followers", "extract_following"} =>
        /\ \A x \in following : ~EndsWithSlash(x)
        /\ \A x, y \in following : ~SlashVariant(x, y)
        /\ following \subseteq {Core(h) : h \in StringHrefs(following_file)}

\* a document with the hrefs "a/" and "a" gave the one entry "a"
C4_Witness ==
    /\ pc # "extract_followers"
    /\ {<<"a">>, <<"a", "/">>} \subseteq StringHrefs(followers_file)
    /\ followers = {<<"a">>}

\* C5: the href of every well-formed sub-record of every well-formed record
\* is in the returned set, whatever malformed items the document holds.
C5_SkipOnlyMalformed ==
    /\ pc # "extract_followers" =>
        \A h \in StringHrefs(followers_file) : Core(h) \in followers
    /\ pc \notin {"extract_followers", "extract_following"} =>
        \A h \in StringHrefs(following_file) : Core(h) \in following

\* C6: a whole-file failure gives the empty set and the run goes on: to the
\* second extraction, to the check, and to the comparison when the other
\* set is not empty.
C6_WholeFileFailure ==
    [][ /\ (pc = "extract_followers" /\ followers_file \in WholeFileFailures)
             => (followers' = {} /\ pc' = "extract_following")
        /\ (pc = "extract_following" /\ following_file \in WholeFileFailures)
             => (following' = {} /\ pc' = "check")
        /\ (/\ pc = "check"
            /\ (followers_file \in WholeFileFailures \/ following_file \in WholeFileFailures)
            /\ (followers # {} \/ following # {}))
             => (pc' = "open" /\ mutuals' = {}) ]_vars

\* the followers file failed as a whole and the report is being written
C6_Witness ==
    /\ followers_file \in WholeFileFailures
    /\ followers = {}
    /\ following # {}
    /\ pc = "write"
    /\ written > 0

\* C7: after a failure of open or of a write the failure is reported, the
\* run ends normally and no report of this run is at the destination.
C7_NoReportAfterFailure ==
    WriteFailed =>
        /\ pc = "done"
        /\ LastMessage = "WriteError"
        /\ disk \in {NoFile, OLD_CONTENT}

\* C8: no error leaves the run uncaught.
C8_NoUncaughtFault == pc # "crashed"

\* the three sections of a complete report: title, heading, body, blank line
ReportShape(b1, b2, b3) ==
    disk.lines = <<TITLE, BLANK>>
                 \o <<HEADING_NOT_FOLLOWING_BACK>> \o b1 \o <<BLANK>>
                 \o <<HEADING_YOU_DONT_FOLLOW_BACK>> \o b2 \o <<BLANK>>
                 \o <<HEADING_MUTUALS>> \o b3 \o <<BLANK>>

\* a section body names each identifier of S once, in increasing order
ListsInOrder(body, S) ==
    /\ Len(body) >= 1
    /\ \A k \in 1..Len(body) : StartsWithMarker(body[k])
    /\ S = {} => body = <<NONE_LINE>>
    /\ S # {} =>
        /\ Listed(body) = S
        /\ Len(body) = Cardinality(S)
        /\ \A k \in 1..(Len(body) - 1) :
               StrLess(AfterMarker(body[k]), AfterMarker(body[k + 1]))

CompleteReportShape ==
    /\ HasSection(HEADING_NOT_FOLLOWING_BACK)
    /\ HasSection(HEADING_YOU_DONT_FOLLOW_BACK)
    /\ HasSection(HEADING_MUTUALS)
    /\ LET b1 == SectionBody(HEADING_NOT_FOLLOWING_BACK)
           b2 == SectionBody(HEADING_YOU_DONT_FOLLOW_BACK)
           b3 == SectionBody(HEADING_MUTUALS)
       IN  /\ ReportShape(b1, b2, b3)
           /\ ListsInOrder(b1, not_following_back)
           /\ ListsInOrder(b2, you_dont_follow_back)
           /\ ListsInOrder(b3, mutuals)

\* the body is the one line "- None"
IsNoneBody(heading) == SectionBody(heading) = <<NONE_LINE>>

NONE_ID == <<"N", "o", "n", "e">>

StepOrder(p) ==
    CASE p = "extract_followers" -> 1
      [] p = "extract_following" -> 2
      [] p = "check" -> 3
      [] p = "open" -> 4
      [] p = "write" -> 5
      [] p \in {"done", "crashed"} -> 6

\* C10: the run only moves forward, one write after the other; followers is
\* set by the first step alone, following by the second alone, the three
\* sets by the comparison alone, and the destination changes only at the
\* open and the writes that follow the comparison.
C10_StrictSequence ==
    [][ /\ \/ StepOrder(pc') > StepOrder(pc)
           \/ pc = "write" /\ pc' = "write" /\ written' = written + 1
        /\ followers' # followers => pc = "extract_followers"
        /\ following' # following => pc = "extract_following"
        /\ pc = "extract_followers" => pc' = "extract_following"
        /\ pc = "extract_following" => pc' = "check"
        /\ <<mutuals', not_following_back', you_dont_follow_back'>>
               # <<mutuals, not_following_back, you_dont_follow_back>>
             => (pc = "check" /\ pc' = "open")
        /\ disk' # disk => pc \in {"open", "write"}
        /\ pc' = "write" => pc \in {"open", "write"} ]_vars

\* a run ended by a failed write after some writes: nothing was started again
C10_Witness ==
    /\ pc = "done"
    /\ LastMessage = "WriteError"
    /\ written >= 2
    /\ followers # {}
    /\ following # {}

====
